---- MODULE Spec2Model ----
(***************************************************************************)
(* Prediction-to-performance evaluation pipeline of sp500_tech_analyser:   *)
(*   backtesting.compute_returns / backtesting.evaluate   (backtesting.py) *)
(*   run_backtest / optimize_thresholds                   (app.py)         *)
(*                                                                         *)
(* Numbers.  A table cell (a pandas float) is a pair <<n, d>>: the         *)
(* rational n/d with d > 0, kept in lowest terms, or NaN == <<0, 0>>.      *)
(* Timestamps are hours since the epoch of the model's calendar; a date is *)
(* a timestamp at 00:00.                                                   *)
(***************************************************************************)
EXTENDS Integers, Sequences, FiniteSets, TLC

VARIABLES
    pc,          \* position of the running call
    outcome,     \* "none" | "returned" | "raised" : how the call ended
    warnings,    \* diagnostics emitted by warnings.warn, in order
    preds,       \* compute_returns: the caller's predictions table
    price,       \* compute_returns: the daily close series
    out,         \* compute_returns: the local copy being augmented / returned
    hidx,        \* compute_returns: position in horizons.items()
    main_df,     \* backtest: the caller's table (main_df of "Run Optimization")
    trial_df,    \* backtest: the table object handed to the last run_backtest
    df_before,   \* backtest: main_df as it was when optimize_thresholds was called
    threshold,   \* backtest: threshold of the last run_backtest call
    performance, \* backtest: value returned by the last run_backtest call
    results,     \* optimize_thresholds: the list of {threshold, performance}
    tidx,        \* optimize_thresholds: position in thresholds_to_test
    best,        \* optimize_thresholds: (best_threshold, best_performance)
    epreds,      \* evaluate: the return-augmented table passed in
    eidx,        \* evaluate: position in score_terms
    report,      \* evaluate: the list `results` of report rows
    pred_cls,    \* evaluate: pred_cls of the last horizon computed
    fetches,     \* run: the (start, end) of every fetch_daily_close call so far
    files,       \* load: the prediction files of the folder
    fidx,        \* load: position in the file listing
    loaded,      \* load: the list `records` / `all_records`
    stamp,       \* normalization: the timestamp being normalized
    norm1,       \* normalization: result of the normalization step
    norm2        \* normalization: result of the step applied to norm1

vars == <<pc, outcome, warnings, preds, price, out, hidx, main_df, trial_df,
          df_before, threshold, performance, results, tidx, best, epreds,
          eidx, report, pred_cls, fetches, files, fidx, loaded, stamp, norm1,
          norm2>>

retVars == <<preds, price, out, hidx>>
btVars == <<main_df, trial_df, df_before, threshold, performance, results, tidx, best>>
evVars == <<epreds, eidx, report, pred_cls>>
loadVars == <<files, fidx, loaded>>
normVars == <<stamp, norm1, norm2>>
auxVars == <<fetches, loadVars, normVars>>

\* the pipelines a specification does not run stay in their idle state
EvalIdle == epreds = <<>> /\ eidx = 0 /\ report = <<>> /\ pred_cls = <<>>
RunIdle == fetches = <<>>
LoadIdle == files = <<>> /\ fidx = 0 /\ loaded = <<>>
NormIdle == stamp = <<>> /\ norm1 = <<>> /\ norm2 = <<>>

----------------------------------------------------------------------------
(* Bounds of the model *)

MaxRecs == 2
MaxDay == 2
MaxRows == 2
MaxEvalRows == 2

----------------------------------------------------------------------------
(* Float cells *)

NaN == <<0, 0>>

IsNaN(c) == c[2] = 0

notna(c) == c[2] # 0

Abs(n) == IF n < 0 THEN -n ELSE n

RECURSIVE GCD(_, _)
GCD(a, b) == IF b = 0 THEN a ELSE GCD(b, a % b)

Norm(c) ==
    IF c[2] = 0 THEN NaN
    ELSE LET s == IF c[2] < 0 THEN -1 ELSE 1
             g == GCD(Abs(c[1]), Abs(c[2]))
         IN  <<(s * c[1]) \div g, (s * c[2]) \div g>>

Num(n) == <<n, 1>>

Add(a, b) == IF IsNaN(a) \/ IsNaN(b) THEN NaN
             ELSE Norm(<<a[1] * b[2] + b[1] * a[2], a[2] * b[2]>>)

Sub(a, b) == IF IsNaN(a) \/ IsNaN(b) THEN NaN
             ELSE Norm(<<a[1] * b[2] - b[1] * a[2], a[2] * b[2]>>)

Mul(a, b) == IF IsNaN(a) \/ IsNaN(b) THEN NaN
             ELSE Norm(<<a[1] * b[1], a[2] * b[2]>>)

\* a / b ; closing prices are positive, so b is never 0 here
Div(a, b) == IF IsNaN(a) \/ IsNaN(b) \/ b[1] = 0 THEN NaN
             ELSE Norm(<<a[1] * b[2], a[2] * b[1]>>)

\* a < b on floats: False when either side is NaN
Lt(a, b) == notna(a) /\ notna(b) /\ a[1] * b[2] < b[1] * a[2]

Gt(a, b) == Lt(b, a)

SeqMax(S) == CHOOSE x \in S : \A y \in S : y <= x

----------------------------------------------------------------------------
(* backtesting.compute_returns *)

HoursPerDay == 24

\* hour of day (UTC) of a daily bar after fetch_daily_close's tz conversion
BarHour == 4

\* hours of day at which hour-rounded prediction timestamps are drawn
PredHours == {0, 13}

\* DatetimeIndex.normalize(): the timestamp at 00:00 of the same day
normalize(ts) == ts - (ts % HoursPerDay)

\* the horizons passed to compute_returns: term -> timedelta (in hours)
Horizons == << [term |-> "d1", delta |-> 1 * HoursPerDay],
               [term |-> "d2", delta |-> 2 * HoursPerDay] >>

\* the largest horizon offset, in days
MaxDelta ==
    SeqMax({Horizons[k].delta : k \in 1..Len(Horizons)}) \div HoursPerDay

Closes == {100, 110}

PredStamps == {d * HoursPerDay + h : d \in 0..MaxDay, h \in PredHours}

\* tables sorted by index (load_predictions ends with sort_index)
PredTables(n) ==
    { t \in [1..n -> PredStamps] : \A i \in 1..(n - 1) : t[i] <= t[i + 1] }

PriceDays == 0..(MaxDay + MaxDelta)

\* a daily series: one bar per trading day, ascending
RECURSIVE BarsOf(_, _)
BarsOf(days, close) ==
    IF days = {} THEN <<>>
    ELSE LET d == CHOOSE x \in days : \A y \in days : x <= y
         IN  <<[ts |-> d * HoursPerDay + BarHour, close |-> close[d]]>>
             \o BarsOf(days \ {d}, close)

PriceSeriesSet ==
    UNION { { BarsOf(days, c) : c \in [days -> Closes] } :
            days \in (SUBSET PriceDays) \ {{}} }

\* preds['date'] = preds.index.normalize()
DateColumn(index) == [i \in 1..Len(index) |-> normalize(index[i])]

\* price_df['date'] = index.normalize(); groupby('date')['close'].last()
PriceDates(p) == {normalize(p[i].ts) : i \in 1..Len(p)}

price_by_date(p, d) ==
    LET idx == {i \in 1..Len(p) : normalize(p[i].ts) = d}
    IN  Num(p[SeqMax(idx)].close)

\* Series.map(price_by_date): an exact-key lookup, NaN for a missing key
MapPrice(p, d) == IF d \in PriceDates(p) THEN price_by_date(p, d) ELSE NaN

BaseCol(t, p) == [i \in 1..Len(t.date) |-> MapPrice(p, t.date[i])]

FutureCol(t, p, delta) == [i \in 1..Len(t.date) |-> MapPrice(p, t.date[i] + delta)]

\* MaskCol testing the base price only
MaskColBaseOnly(base, future) == [i \in 1..Len(base) |-> notna(base[i])]

MaskCol(base, future) == [i \in 1..Len(base) |-> notna(base[i]) /\ notna(future[i])]

MaskSum(mask) == Cardinality({i \in 1..Len(mask) : mask[i]})

\* ReturnsCol with the column initialised to 0.0 instead of left empty
ReturnsColZeroFill(base, future) ==
    LET mask == MaskCol(base, future)
    IN  [i \in 1..Len(base) |->
            IF mask[i] THEN Div(Sub(future[i], base[i]), base[i]) ELSE Num(0)]

\* returns = Series(index, dtype=float); returns.loc[mask] = (future - base) / base
ReturnsCol(base, future) ==
    LET mask == MaskCol(base, future)
    IN  [i \in 1..Len(base) |->
            IF mask[i] THEN Div(Sub(future[i], base[i]), base[i]) ELSE NaN]

\* preds.copy() with the 'date' column; R maps each term done so far to its column
CallComputeReturns ==
    /\ pc = "start"
    /\ pc' = "compute_returns"
    /\ out' = [index |-> preds, date |-> DateColumn(preds),
               R |-> [t \in {} |-> <<>>]]
    /\ hidx' = 1
    /\ UNCHANGED <<outcome, warnings, preds, price, btVars, evVars, auxVars>>

\* one pass of `for term, delta in horizons.items()`
ComputeReturnsTerm ==
    /\ pc = "compute_returns"
    /\ hidx <= Len(Horizons)
    /\ LET term == Horizons[hidx].term
           delta == Horizons[hidx].delta
           base == BaseCol(out, price)
           future == FutureCol(out, price, delta)
           mask == MaskCol(base, future)
           returns == ReturnsCol(base, future)
       IN  /\ warnings' = IF MaskSum(mask) = 0
                          THEN Append(warnings, term) ELSE warnings
           /\ out' = [out EXCEPT !.R =
                        [t \in DOMAIN out.R \cup {term} |->
                            IF t = term THEN returns ELSE out.R[t]]]
    /\ hidx' = hidx + 1
    /\ UNCHANGED <<pc, outcome, preds, price, btVars, evVars, auxVars>>

ComputeReturnsReturn ==
    /\ pc = "compute_returns"
    /\ hidx > Len(Horizons)
    /\ pc' = "returns_done"
    /\ outcome' = "returned"
    /\ UNCHANGED <<warnings, retVars, btVars, evVars, auxVars>>

InitReturns ==
    /\ pc = "start"
    /\ outcome = "none"
    /\ warnings = <<>>
    /\ \E n \in 1..MaxRecs : preds \in PredTables(n)
    /\ price \in PriceSeriesSet
    /\ out = [index |-> <<>>, date |-> <<>>, R |-> [t \in {} |-> <<>>]]
    /\ hidx = 0
    /\ main_df = <<>> /\ trial_df = <<>> /\ df_before = <<>>
    /\ threshold = 0 /\ performance = NaN /\ results = <<>> /\ tidx = 0
    /\ best = <<0, NaN>>
    /\ EvalIdle /\ RunIdle /\ LoadIdle /\ NormIdle

NextReturns == CallComputeReturns \/ ComputeReturnsTerm \/ ComputeReturnsReturn

SpecReturns == InitReturns /\ [][NextReturns]_vars

----------------------------------------------------------------------------
(* "Run Analysis" (app.py) and backtesting's __main__: load, fetch once,
   compute_returns over the six horizons *)

HoursPerWeek == 168

\* horizons_deltas of the run: term -> timedelta (in hours)
RunHorizons ==
    << [term |-> "short_1w", delta |-> 1 * HoursPerWeek],
       [term |-> "short_2w", delta |-> 2 * HoursPerWeek],
       [term |-> "short_3w", delta |-> 3 * HoursPerWeek],
       [term |-> "short_4w", delta |-> 4 * HoursPerWeek],
       [term |-> "medium_13w", delta |-> 13 * HoursPerWeek],
       [term |-> "long_26w", delta |-> 26 * HoursPerWeek] >>

\* end = index.max() + timedelta(weeks=27)
FetchMarginWeeks == 27

SeqMin(S) == CHOOSE x \in S : \A y \in S : x <= y

IndexSet(index) == {index[i] : i \in 1..Len(index)}

\* start = preds_df.index.min().strftime('%Y-%m-%d')
FetchStart(index) == normalize(SeqMin(IndexSet(index)))

\* FetchEnd with a margin of the short horizons only
FetchEndShort(index) ==
    normalize(SeqMax(IndexSet(index)) + 4 * HoursPerWeek)

\* end = (preds_df.index.max() + timedelta(weeks=27)).strftime('%Y-%m-%d')
FetchEnd(index) ==
    normalize(SeqMax(IndexSet(index)) + FetchMarginWeeks * HoursPerWeek)

\* the provider's calendar: day 0 is a Friday, days 1 and 2 of each week are
\* the weekend; the close of a trading day is a fixed function of the day
TradingDay(d) == d % 7 \notin {1, 2}

ProviderClose(d) == 100 + 10 * (d % 3)

\* yf.download(start=start, end=end, interval='1d'): the daily bars dated in
\* [start, end), then the index converted to naive UTC
ProviderBars(start, end) ==
    LET days == {d \in (start \div HoursPerDay)..((end \div HoursPerDay) - 1) :
                    TradingDay(d)}
        rank(d) == Cardinality({e \in days : e <= d})
    IN  [k \in 1..Cardinality(days) |->
            LET d == CHOOSE e \in days : rank(e) = k
            IN  [ts |-> d * HoursPerDay + BarHour, close |-> ProviderClose(d)]]

\* daily_close = backtesting.fetch_daily_close(start, end)
RunFetch ==
    /\ pc = "run_start"
    /\ pc' = "run_fetched"
    /\ fetches' = Append(fetches, [start |-> FetchStart(preds), end |-> FetchEnd(preds)])
    /\ price' = ProviderBars(FetchStart(preds), FetchEnd(preds))
    /\ UNCHANGED <<outcome, warnings, preds, out, hidx, btVars, evVars, loadVars,
                   normVars>>

\* preds_with_ret = backtesting.compute_returns(preds_df, daily_close, ...): entry
RunCallComputeReturns ==
    /\ pc = "run_fetched"
    /\ pc' = "run_returns"
    /\ out' = [index |-> preds, date |-> DateColumn(preds),
               R |-> [t \in {} |-> <<>>]]
    /\ hidx' = 1
    /\ UNCHANGED <<outcome, warnings, preds, price, btVars, evVars, auxVars>>

\* one pass of compute_returns' loop over the run's horizons
RunComputeReturnsTerm ==
    /\ pc = "run_returns"
    /\ hidx <= Len(RunHorizons)
    /\ LET term == RunHorizons[hidx].term
           base == BaseCol(out, price)
           future == FutureCol(out, price, RunHorizons[hidx].delta)
       IN  /\ warnings' = IF MaskSum(MaskCol(base, future)) = 0
                          THEN Append(warnings, term) ELSE warnings
           /\ out' = [out EXCEPT !.R =
                        [t \in DOMAIN out.R \cup {term} |->
                            IF t = term THEN ReturnsCol(base, future) ELSE out.R[t]]]
    /\ hidx' = hidx + 1
    /\ UNCHANGED <<pc, outcome, preds, price, btVars, evVars, auxVars>>

RunComputeReturnsReturn ==
    /\ pc = "run_returns"
    /\ hidx > Len(RunHorizons)
    /\ pc' = "run_aligned"
    /\ outcome' = "returned"
    /\ UNCHANGED <<warnings, retVars, btVars, evVars, auxVars>>

InitRun ==
    /\ pc = "run_start"
    /\ outcome = "none"
    /\ warnings = <<>>
    /\ \E n \in 1..MaxRecs : preds \in PredTables(n)
    /\ price = <<>>
    /\ out = [index |-> <<>>, date |-> <<>>, R |-> [t \in {} |-> <<>>]]
    /\ hidx = 0
    /\ main_df = <<>> /\ trial_df = <<>> /\ df_before = <<>>
    /\ threshold = 0 /\ performance = NaN /\ results = <<>> /\ tidx = 0
    /\ best = <<0, NaN>>
    /\ EvalIdle /\ RunIdle /\ LoadIdle /\ NormIdle

NextRun ==
    RunFetch \/ RunCallComputeReturns \/ RunComputeReturnsTerm
        \/ RunComputeReturnsReturn

SpecRun == InitRun /\ [][NextRun]_vars

\* the largest offset of the run's horizons
MaxRunDelta == SeqMax({RunHorizons[k].delta : k \in 1..Len(RunHorizons)})

\* C12: in one run the price series is fetched exactly once, before any
\* horizon's returns are computed, for a span from the earliest prediction date
\* through the latest prediction date plus the largest offset; every horizon
\* uses that same series and none triggers another fetch.
C12_FetchOnce ==
    /\ Len(fetches) <= 1
    /\ pc = "run_start" => Len(fetches) = 0
    /\ pc \in {"run_fetched", "run_returns", "run_aligned"} =>
          /\ Len(fetches) = 1
          /\ fetches[1].start <= normalize(SeqMin(IndexSet(preds)))
          /\ fetches[1].end > normalize(SeqMax(IndexSet(preds))) + MaxRunDelta
          /\ price = ProviderBars(fetches[1].start, fetches[1].end)
    /\ DOMAIN out.R # {} => Len(fetches) = 1

\* a finished alignment where the longest horizon resolved for a record
C12_Witness ==
    /\ pc = "run_aligned"
    /\ Len(fetches) = 1
    /\ \E i \in 1..Len(preds) : notna(out.R["long_26w"][i])
    /\ \E i \in 1..Len(preds) : IsNaN(out.R["short_1w"][i])

----------------------------------------------------------------------------
(* Loading prediction files: backtesting.load_predictions and
   1_data_consolidation.consolidate_analysis_data *)

MaxFiles == 2

LoadScores == {Num(-5), Num(5)}

\* a file of the folder: "ok" parses and carries its score, "bad_json" makes
\* json.load raise, "no_score" parses but its short_term has no 'score' key
FileSet ==
    [kind : {"ok"}, datetime : 0..MaxDay, score : LoadScores]
        \cup [kind : {"no_score"}, datetime : 0..MaxDay, score : {NaN}]
        \cup {[kind |-> "bad_json", datetime |-> 0, score |-> NaN]}

Folders(n) == [1..n -> FileSet]

\* sort_index() / sort_values('date'): ascending by key, ties in input order
SortByDatetime(recs) ==
    LET pos(i) == Cardinality({j \in 1..Len(recs) :
                        \/ recs[j].datetime < recs[i].datetime
                        \/ recs[j].datetime = recs[i].datetime /\ j <= i})
    IN  [k \in 1..Len(recs) |-> recs[CHOOSE i \in 1..Len(recs) : pos(i) = k]]

\* load_predictions(folder): entry
CallLoadPredictions ==
    /\ pc = "load_idle"
    /\ pc' = "load_predictions"
    /\ fidx' = 1
    /\ loaded' = <<>>
    /\ UNCHANGED <<outcome, warnings, retVars, btVars, evVars, fetches, files,
                   normVars>>

\* one pass of load_predictions' loop: json.load and data[...]['score'] are not
\* guarded, so an error in either leaves the function
LoadPredictionsFile ==
    /\ pc = "load_predictions"
    /\ fidx <= Len(files)
    /\ IF files[fidx].kind = "ok"
       THEN /\ loaded' = Append(loaded, [datetime |-> files[fidx].datetime,
                                         score |-> files[fidx].score])
            /\ fidx' = fidx + 1
            /\ UNCHANGED <<pc, outcome>>
       ELSE /\ pc' = "load_done"
            /\ outcome' = "raised"
            /\ loaded' = <<>>
            /\ UNCHANGED fidx
    /\ UNCHANGED <<warnings, retVars, btVars, evVars, fetches, files, normVars>>

\* df = pd.DataFrame(records).set_index('datetime').sort_index(); return df
LoadPredictionsReturn ==
    /\ pc = "load_predictions"
    /\ fidx > Len(files)
    /\ pc' = "load_done"
    /\ IF loaded = <<>>
       THEN outcome' = "raised" /\ UNCHANGED loaded
       ELSE outcome' = "returned" /\ loaded' = SortByDatetime(loaded)
    /\ UNCHANGED <<warnings, retVars, btVars, evVars, fetches, files, fidx,
                   normVars>>

\* the files consolidate_analysis_data turns into a record: a parsed file is
\* kept even without a score (data.get(term, {}).get('score') yields None)
ConsolidateKeeps(f) == f.kind \in {"ok", "no_score"}

\* consolidate_analysis_data(folder_path): entry (the folder exists)
CallConsolidate ==
    /\ pc = "load_idle"
    /\ pc' = "consolidate"
    /\ fidx' = 1
    /\ loaded' = <<>>
    /\ UNCHANGED <<outcome, warnings, retVars, btVars, evVars, fetches, files,
                   normVars>>

\* one pass of the loop: the try block around one file
ConsolidateFile ==
    /\ pc = "consolidate"
    /\ fidx <= Len(files)
    /\ IF ConsolidateKeeps(files[fidx])
       THEN /\ loaded' = Append(loaded, [datetime |-> files[fidx].datetime,
                                         score |-> files[fidx].score])
            /\ UNCHANGED warnings
       ELSE /\ warnings' = Append(warnings, fidx)
            /\ UNCHANGED loaded
    /\ fidx' = fidx + 1
    /\ UNCHANGED <<pc, outcome, retVars, btVars, evVars, fetches, files, normVars>>

\* if not all_records: return None; else the frame sorted by date
ConsolidateReturn ==
    /\ pc = "consolidate"
    /\ fidx > Len(files)
    /\ pc' = "consolidate_done"
    /\ IF loaded = <<>>
       THEN outcome' = "returned_none" /\ UNCHANGED loaded
       ELSE outcome' = "returned" /\ loaded' = SortByDatetime(loaded)
    /\ UNCHANGED <<warnings, retVars, btVars, evVars, fetches, files, fidx,
                   normVars>>

InitLoad ==
    /\ pc = "load_idle"
    /\ outcome = "none"
    /\ warnings = <<>>
    /\ preds = <<>> /\ price = <<>> /\ hidx = 0
    /\ out = [index |-> <<>>, date |-> <<>>, R |-> [t \in {} |-> <<>>]]
    /\ main_df = <<>> /\ trial_df = <<>> /\ df_before = <<>>
    /\ threshold = 0 /\ performance = NaN /\ results = <<>> /\ tidx = 0
    /\ best = <<0, NaN>>
    /\ EvalIdle /\ RunIdle /\ NormIdle
    /\ \E n \in 1..MaxFiles : files \in Folders(n)
    /\ fidx = 0
    /\ loaded = <<>>

NextLoad ==
    CallLoadPredictions \/ LoadPredictionsFile \/ LoadPredictionsReturn
        \/ CallConsolidate \/ ConsolidateFile \/ ConsolidateReturn

SpecLoad == InitLoad /\ [][NextLoad]_vars

\* the records of the well-formed files of the folder
WellFormed == SelectSeq(files, LAMBDA f : f.kind = "ok")

Count(seq, r) == Cardinality({i \in 1..Len(seq) : seq[i] = r})

LoadRecordOf(f) == [datetime |-> f.datetime, score |-> f.score]

\* C13: a file that fails to parse or lacks a score is skipped with a
\* diagnostic and the other files are still loaded: whenever a load over a
\* folder with at least one well-formed file has finished, it has returned
\* exactly the records of the well-formed files, none with a missing score,
\* and one diagnostic per bad file.
C13_BadFilesSkipped ==
    (pc \in {"load_done", "consolidate_done"} /\ Len(WellFormed) > 0) =>
        /\ outcome = "returned"
        /\ Len(loaded) = Len(WellFormed)
        /\ \A k \in 1..Len(WellFormed) :
              Count(loaded, LoadRecordOf(WellFormed[k]))
                  = Count(WellFormed, WellFormed[k])
        /\ \A i \in 1..Len(loaded) : notna(loaded[i].score)
        /\ Len(warnings) = Len(files) - Len(WellFormed)

----------------------------------------------------------------------------
(* Timestamp normalization: backtesting.load_predictions and the record loop
   of plot_results *)

MinutesPerHour == 60

MaxHour == 3

\* minutes past the hour of the input timestamps: around the rounding point
StampMinutes == {0, 29, 30, 31}

\* UTC offsets (minutes) of timezone-aware input strings
StampOffsets == {0, 120}

\* UTC offset (minutes) of Asia/Jerusalem: standard and daylight time
JerusalemOffsets == {120, 180}

\* a parsed 'datetime' value: wall-clock minutes, aware or naive, its offset
\* when aware, and the Asia/Jerusalem offset in force around it
Stamps ==
    {[wall |-> h * MinutesPerHour + m, aware |-> a, offset |-> o, jerusalem |-> j] :
        h \in 0..MaxHour, m \in StampMinutes,
        a \in BOOLEAN, o \in StampOffsets, j \in JerusalemOffsets}

StampSet == {s \in Stamps : ~s.aware => s.offset = 0}

\* Timestamp.round('h'): nearest hour, a half goes to the even hour
round_h(m) ==
    LET h == m \div MinutesPerHour
        r == m % MinutesPerHour
    IN  IF 2 * r < MinutesPerHour THEN h * MinutesPerHour
        ELSE IF 2 * r > MinutesPerHour THEN (h + 1) * MinutesPerHour
        ELSE IF h % 2 = 0 THEN h * MinutesPerHour ELSE (h + 1) * MinutesPerHour

\* pd.to_datetime(x, utc=True): a naive value is taken as UTC, an aware one is
\* converted; tz_convert keeps the instant; round('h'); tz_localize(None)
NormalizeBacktesting(s) ==
    [wall |-> round_h(IF s.aware THEN s.wall - s.offset ELSE s.wall),
     aware |-> FALSE, offset |-> 0, jerusalem |-> s.jerusalem]

\* pd.to_datetime(x); a naive value is localized to Asia/Jerusalem, an aware
\* one converted; tz_convert('UTC'); round('h'); tz_localize(None)
NormalizePlotResults(s) ==
    [wall |-> round_h(IF s.aware THEN s.wall - s.offset
                      ELSE s.wall - s.jerusalem),
     aware |-> FALSE, offset |-> 0, jerusalem |-> s.jerusalem]

\* the normalization of load_predictions applied to a file's 'datetime'
LoadPredictionsNormalize ==
    /\ pc = "norm_idle"
    /\ pc' = "norm_backtesting"
    /\ norm1' = NormalizeBacktesting(stamp)
    /\ UNCHANGED <<outcome, warnings, retVars, btVars, evVars, fetches, loadVars,
                   stamp, norm2>>

\* the same step applied to its own result
LoadPredictionsRenormalize ==
    /\ pc = "norm_backtesting"
    /\ pc' = "norm_done"
    /\ norm2' = NormalizeBacktesting(norm1)
    /\ UNCHANGED <<outcome, warnings, retVars, btVars, evVars, fetches, loadVars,
                   stamp, norm1>>

\* the normalization of plot_results applied to a file's 'datetime'
PlotResultsNormalize ==
    /\ pc = "norm_idle"
    /\ pc' = "norm_plot_results"
    /\ norm1' = NormalizePlotResults(stamp)
    /\ UNCHANGED <<outcome, warnings, retVars, btVars, evVars, fetches, loadVars,
                   stamp, norm2>>

\* the same step applied to its own result
PlotResultsRenormalize ==
    /\ pc = "norm_plot_results"
    /\ pc' = "norm_done"
    /\ norm2' = NormalizePlotResults(norm1)
    /\ UNCHANGED <<outcome, warnings, retVars, btVars, evVars, fetches, loadVars,
                   stamp, norm1>>

InitNormalize ==
    /\ pc = "norm_idle"
    /\ outcome = "none"
    /\ warnings = <<>>
    /\ preds = <<>> /\ price = <<>> /\ hidx = 0
    /\ out = [index |-> <<>>, date |-> <<>>, R |-> [t \in {} |-> <<>>]]
    /\ main_df = <<>> /\ trial_df = <<>> /\ df_before = <<>>
    /\ threshold = 0 /\ performance = NaN /\ results = <<>> /\ tidx = 0
    /\ best = <<0, NaN>>
    /\ EvalIdle /\ RunIdle /\ LoadIdle
    /\ stamp \in StampSet
    /\ norm1 = <<>>
    /\ norm2 = <<>>

NextNormalize ==
    LoadPredictionsNormalize \/ LoadPredictionsRenormalize
        \/ PlotResultsNormalize \/ PlotResultsRenormalize

SpecNormalize == InitNormalize /\ [][NextNormalize]_vars

\* C14: timestamp normalization is idempotent in each place that normalizes
\* prediction timestamps: normalizing an already normalized timestamp again
\* yields the same value.
C14_NormalizationIdempotent ==
    pc = "norm_done" => norm2.wall = norm1.wall

----------------------------------------------------------------------------
(* run_backtest and optimize_thresholds (app.py; the same code is in
   add_analytics/3_backtest_and_optimize.py) *)

\* optimize_thresholds(df, term): score_col, return_col for term = 'short_term'
score_col == "short_term_score"

return_col == "short_term_return"

ScoreCells == {NaN, Num(-100), Num(-5), Num(0), Num(5), Num(60), Num(100)}

ReturnCells == {NaN, <<-1, 10>>, <<1, 5>>}

\* main_df = pd.read_csv(...): a table is a map column name -> column
Tables(n) ==
    { [c \in {score_col, return_col} |-> IF c = score_col THEN sc ELSE rc] :
        sc \in [1..n -> ScoreCells], rc \in [1..n -> ReturnCells] }

NRows(df) == Len(df[score_col])

\* SignalCol with the comparisons made inclusive
SignalColInclusive(scores, th) ==
    LET s0 == [i \in 1..Len(scores) |-> 0]
        s1 == [i \in 1..Len(scores) |->
                 IF ~Lt(scores[i], Num(th)) /\ notna(scores[i]) THEN 1 ELSE s0[i]]
        s2 == [i \in 1..Len(scores) |->
                 IF ~Gt(scores[i], Num(-th)) /\ notna(scores[i]) THEN -1 ELSE s1[i]]
    IN  s2

\* df['signal'] = 0 ; df.loc[score > threshold, 'signal'] = 1 ;
\* df.loc[score < -threshold, 'signal'] = -1     (in this order)
SignalCol(scores, th) ==
    LET s0 == [i \in 1..Len(scores) |-> 0]
        s1 == [i \in 1..Len(scores) |->
                 IF Gt(scores[i], Num(th)) THEN 1 ELSE s0[i]]
        s2 == [i \in 1..Len(scores) |->
                 IF Lt(scores[i], Num(-th)) THEN -1 ELSE s1[i]]
    IN  s2

\* the table object after run_backtest has written its 'signal' column
WithSignal(df, th) ==
    [c \in DOMAIN df \cup {"signal"} |->
        IF c = "signal" THEN SignalCol(df[score_col], th) ELSE df[c]]

\* strategy_returns = df['signal'] * df[return_col]
StrategyReturns(df) ==
    [i \in 1..NRows(df) |-> Mul(Num(df["signal"][i]), df[return_col][i])]

\* Series.prod() with skipna=False: one NaN makes the product NaN
RECURSIVE ProdKeepNaN(_)
ProdKeepNaN(col) ==
    IF col = <<>> THEN Num(1)
    ELSE Mul(Head(col), ProdKeepNaN(Tail(col)))

\* Series.prod(): NaN entries are skipped (skipna=True), the empty product is 1.0
RECURSIVE Prod(_)
Prod(col) ==
    IF col = <<>> THEN Num(1)
    ELSE IF IsNaN(Head(col)) THEN Prod(Tail(col))
    ELSE Mul(Head(col), Prod(Tail(col)))

\* cumulative_return = (1 + strategy_returns).prod()
CumulativeReturn(df) ==
    LET sr == StrategyReturns(df)
    IN  Prod([i \in 1..Len(sr) |-> Add(Num(1), sr[i])])

\* range(start, stop, step), step > 0
Range(start, stop, step) ==
    [i \in 1..((stop - start + step - 1) \div step) |-> start + (i - 1) * step]

GridStart == 0
GridStop == 101
GridStep == 5

\* range(0, 100, 5): the stop value off by one
thresholds_short == Range(GridStart, GridStop - 1, GridStep)

thresholds_to_test == Range(GridStart, GridStop, GridStep)

\* run_backtest(df, ...) called with the caller's own table object
TrialArgAlias == "self"

\* what optimize_thresholds hands to run_backtest: df.copy()
TrialArg == "copy"

\* Series.idxmax() taking the last position of the maximum
idxmaxLast(col) ==
    CHOOSE i \in 1..Len(col) :
        /\ \A j \in 1..Len(col) : ~Lt(col[i], col[j])
        /\ \A j \in (i + 1)..Len(col) : Lt(col[j], col[i])

\* Series.idxmax(): the first position of the maximum
idxmax(col) ==
    CHOOSE i \in 1..Len(col) :
        /\ \A j \in 1..Len(col) : ~Lt(col[i], col[j])
        /\ \A j \in 1..(i - 1) : Lt(col[j], col[i])

\* thresholds a caller may hand to run_backtest directly
DirectThresholds == {-60, -5, 0, 5, 50}

\* run_backtest(main_df, score_col, return_col, th) called on the caller's table
CallRunBacktest ==
    /\ pc = "idle"
    /\ \E th \in DirectThresholds :
         LET after == WithSignal(main_df, th)
         IN  /\ main_df' = after
             /\ trial_df' = after
             /\ threshold' = th
             /\ performance' = CumulativeReturn(after)
    /\ pc' = "backtest_done"
    /\ outcome' = "returned"
    /\ UNCHANGED <<warnings, df_before, results, tidx, best, retVars, evVars,
                   auxVars>>

CallOptimize ==
    /\ pc = "idle"
    /\ pc' = "optimize"
    /\ df_before' = main_df
    /\ results' = <<>>
    /\ tidx' = 1
    /\ UNCHANGED <<outcome, warnings, main_df, trial_df, threshold, performance,
                   best, retVars, evVars, auxVars>>

\* one pass of `for threshold in thresholds_to_test`
OptimizeTrial ==
    /\ pc = "optimize"
    /\ tidx <= Len(thresholds_to_test)
    /\ LET th == thresholds_to_test[tidx]
           after == WithSignal(main_df, th)
           perf == CumulativeReturn(after)
       IN  /\ main_df' = IF TrialArg = "copy" THEN main_df ELSE after
           /\ trial_df' = after
           /\ threshold' = th
           /\ performance' = perf
           /\ results' = Append(results, [threshold |-> th, performance |-> perf])
    /\ tidx' = tidx + 1
    /\ UNCHANGED <<pc, outcome, warnings, df_before, best, retVars, evVars,
                   auxVars>>

\* results_df.loc[results_df['performance'].idxmax()]
OptimizeReturn ==
    /\ pc = "optimize"
    /\ tidx > Len(thresholds_to_test)
    /\ LET k == idxmax([i \in 1..Len(results) |-> results[i].performance])
       IN  best' = <<results[k].threshold, results[k].performance>>
    /\ pc' = "optimize_done"
    /\ outcome' = "returned"
    /\ UNCHANGED <<warnings, main_df, trial_df, df_before, threshold, performance,
                   results, tidx, retVars, evVars, auxVars>>

InitBacktest ==
    /\ pc = "idle"
    /\ outcome = "none"
    /\ warnings = <<>>
    /\ preds = <<>> /\ price = <<>> /\ hidx = 0
    /\ out = [index |-> <<>>, date |-> <<>>, R |-> [t \in {} |-> <<>>]]
    /\ \E n \in 0..MaxRows : main_df \in Tables(n)
    /\ trial_df = <<>> /\ df_before = <<>>
    /\ threshold = 0 /\ performance = NaN /\ results = <<>> /\ tidx = 0
    /\ best = <<0, NaN>>
    /\ EvalIdle /\ RunIdle /\ LoadIdle /\ NormIdle

NextBacktest == CallRunBacktest \/ CallOptimize \/ OptimizeTrial \/ OptimizeReturn

SpecBacktest == InitBacktest /\ [][NextBacktest]_vars

----------------------------------------------------------------------------
(* backtesting.evaluate *)

\* score_terms: two horizons that prepare_predictions_for_horizons maps to the
\* same 'short' score
score_terms == <<"short_1w", "short_2w">>

\* thresholds = {'ret_up': 0.00, 'score_flat': 1}
ret_up == 0
score_flat == 1

\* outer edges of bins = [-100, -score_flat, score_flat, 100]
BinLow == -100
BinHigh == 100

EvalScoreCells == {NaN, Num(-100), Num(-5), Num(-1), Num(1), Num(5), Num(100)}

EvalReturnCells == {NaN, <<-1, 100>>, <<1, 100>>}

TermSet == {score_terms[k] : k \in 1..Len(score_terms)}

\* return-augmented tables: preds[f'{term}_score'] and preds[f'R_{term}']
EvalTables(n) ==
    { [score |-> [t \in TermSet |-> sc], R |-> rc] :
        sc \in [1..n -> EvalScoreCells],
        rc \in [TermSet -> [1..n -> EvalReturnCells]] }

\* mask = score.notna() & ret.notna(), as the set of selected positions
ValidPairs(t, term) ==
    {i \in 1..Len(t.score[term]) : notna(t.score[term][i]) /\ notna(t.R[term][i])}

true_label(x) ==
    IF Gt(x, Num(ret_up)) THEN "Up"
    ELSE IF Lt(x, Num(-ret_up)) THEN "Down"
    ELSE "Flat"

\* pd.cut(score_v, bins, labels): right-closed bins (-100, -score_flat],
\* (-score_flat, score_flat], (score_flat, 100]; a value in no bin gives NaN
pred_label(s) ==
    IF Gt(s, Num(BinLow)) /\ ~Gt(s, Num(-score_flat)) THEN "Down"
    ELSE IF Gt(s, Num(-score_flat)) /\ ~Gt(s, Num(score_flat)) THEN "Flat"
    ELSE IF Gt(s, Num(score_flat)) /\ ~Gt(s, Num(BinHigh)) THEN "Up"
    ELSE "nan"

TrueCls(t, term) == [i \in ValidPairs(t, term) |-> true_label(t.R[term][i])]

PredCls(t, term) == [i \in ValidPairs(t, term) |-> pred_label(t.score[term][i])]

\* n / d with zero_division=0
Ratio(n, d) == IF d = 0 THEN Num(0) ELSE Norm(<<n, d>>)

\* classification_report(true_cls, pred_cls, output_dict=True, zero_division=0)
\* raises when pred_cls holds NaN next to string labels
ReportRaises(t, term) ==
    \E i \in ValidPairs(t, term) : PredCls(t, term)[i] = "nan"

\* the keys of the report: the labels present in true_cls or pred_cls
ReportLabels(t, term) ==
    {TrueCls(t, term)[i] : i \in ValidPairs(t, term)}
        \cup {PredCls(t, term)[i] : i \in ValidPairs(t, term)}

\* the sum of the cells f[i], i in S
RECURSIVE SumCells(_, _)
SumCells(S, f) ==
    IF S = {} THEN Num(0)
    ELSE LET i == CHOOSE x \in S : TRUE
         IN  Add(f[i], SumCells(S \ {i}, f))

\* score_v.corr(ret_v): Pearson r, kept exactly as <<sign of r, n, d>> with
\* r * r = n / d; <<0, 0, 0>> (NaN) when either series is constant
pearson_r(t, term) ==
    LET V == ValidPairs(t, term)
        n == Num(Cardinality(V))
        x == [i \in V |-> t.score[term][i]]
        y == [i \in V |-> t.R[term][i]]
        sx == SumCells(V, x)
        sy == SumCells(V, y)
        sxx == SumCells(V, [i \in V |-> Mul(x[i], x[i])])
        syy == SumCells(V, [i \in V |-> Mul(y[i], y[i])])
        sxy == SumCells(V, [i \in V |-> Mul(x[i], y[i])])
        c == Sub(Mul(n, sxy), Mul(sx, sy))
        vx == Sub(Mul(n, sxx), Mul(sx, sx))
        vy == Sub(Mul(n, syy), Mul(sy, sy))
        sq == Div(Mul(c, c), Mul(vx, vy))
    IN  IF vx[1] = 0 \/ vy[1] = 0 THEN <<0, 0, 0>>
        ELSE <<IF c[1] > 0 THEN 1 ELSE IF c[1] < 0 THEN -1 ELSE 0, sq[1], sq[2]>>

\* the row appended to results
ReportRow(t, term) ==
    LET V == ValidPairs(t, term)
        tc == TrueCls(t, term)
        pr == PredCls(t, term)
        tp == Cardinality({i \in V : tc[i] = "Up" /\ pr[i] = "Up"})
        pu == Cardinality({i \in V : pr[i] = "Up"})
        tu == Cardinality({i \in V : tc[i] = "Up"})
    IN  [term |-> term,
         pearson_r |-> pearson_r(t, term),
         accuracy |-> Ratio(Cardinality({i \in V : tc[i] = pr[i]}), Cardinality(V)),
         precision_up |-> Ratio(tp, pu),
         recall_up |-> Ratio(tp, tu),
         f1_up |-> Ratio(2 * tp, pu + tu)]

CallEvaluate ==
    /\ pc = "start"
    /\ pc' = "evaluate"
    /\ report' = <<>>
    /\ eidx' = 1
    /\ UNCHANGED <<outcome, warnings, epreds, pred_cls, retVars, btVars, auxVars>>

\* one pass of `for term in score_terms` that skips the term
EvaluateSkip ==
    /\ pc = "evaluate"
    /\ eidx <= Len(score_terms)
    /\ Cardinality(ValidPairs(epreds, score_terms[eidx])) < 2
    /\ warnings' = Append(warnings, score_terms[eidx])
    /\ eidx' = eidx + 1
    /\ UNCHANGED <<pc, outcome, epreds, report, pred_cls, retVars, btVars,
                   auxVars>>

\* one pass of `for term in score_terms` that computes the metrics; the call
\* ends with the exception when classification_report or report['Up'] raises
EvaluateTerm ==
    /\ pc = "evaluate"
    /\ eidx <= Len(score_terms)
    /\ Cardinality(ValidPairs(epreds, score_terms[eidx])) >= 2
    /\ pred_cls' = [term |-> score_terms[eidx],
                    cls |-> PredCls(epreds, score_terms[eidx])]
    /\ LET term == score_terms[eidx]
       IN  IF ReportRaises(epreds, term) \/ "Up" \notin ReportLabels(epreds, term)
           THEN /\ pc' = "evaluate_done"
                /\ outcome' = "raised"
                /\ UNCHANGED <<report, eidx>>
           ELSE /\ report' = Append(report, ReportRow(epreds, term))
                /\ eidx' = eidx + 1
                /\ UNCHANGED <<pc, outcome>>
    /\ UNCHANGED <<warnings, epreds, retVars, btVars, auxVars>>

\* return pd.DataFrame(results).set_index('term'): KeyError on an empty list
EvaluateReturn ==
    /\ pc = "evaluate"
    /\ eidx > Len(score_terms)
    /\ pc' = "evaluate_done"
    /\ outcome' = IF report = <<>> THEN "raised" ELSE "returned"
    /\ UNCHANGED <<warnings, evVars, retVars, btVars, auxVars>>

InitEvaluate ==
    /\ pc = "start"
    /\ outcome = "none"
    /\ warnings = <<>>
    /\ preds = <<>> /\ price = <<>> /\ hidx = 0
    /\ out = [index |-> <<>>, date |-> <<>>, R |-> [t \in {} |-> <<>>]]
    /\ main_df = <<>> /\ trial_df = <<>> /\ df_before = <<>>
    /\ threshold = 0 /\ performance = NaN /\ results = <<>> /\ tidx = 0
    /\ best = <<0, NaN>>
    /\ \E n \in 1..MaxEvalRows : epreds \in EvalTables(n)
    /\ eidx = 0
    /\ report = <<>>
    /\ pred_cls = <<>>
    /\ RunIdle /\ LoadIdle /\ NormIdle

NextEvaluate == CallEvaluate \/ EvaluateSkip \/ EvaluateTerm \/ EvaluateReturn

SpecEvaluate == InitEvaluate /\ [][NextEvaluate]_vars

----------------------------------------------------------------------------
(* Properties of evaluate *)

\* the horizons that have a row in the table evaluate returned
ReportTerms ==
    IF outcome = "returned" THEN {report[k].term : k \in 1..Len(report)} ELSE {}

Diagnosed == {warnings[k] : k \in 1..Len(warnings)}

\* every paired score of the table falls in one of the three score bins
ScoresInBins ==
    \A term \in TermSet : \A i \in ValidPairs(epreds, term) :
        PredCls(epreds, term)[i] # "nan"

\* C9: a horizon has a report row if and only if it has at least 2 records with
\* both score and return defined; a horizon with 0 or 1 valid pairs has no row
\* and a diagnostic is emitted for it.  (Stated for tables whose scores all
\* fall inside the score bins.)
C9_RowIffTwoPairs ==
    (pc = "evaluate_done" /\ ScoresInBins) =>
        \A term \in TermSet :
            /\ term \in ReportTerms <=> Cardinality(ValidPairs(epreds, term)) >= 2
            /\ Cardinality(ValidPairs(epreds, term)) < 2 => term \in Diagnosed

\* C10: horizons are independent: the call completes and returns, for every
\* horizon with at least 2 valid pairs, the row computed from that horizon's
\* own pairs, whatever the other horizons hold (a skipped horizon, a horizon
\* with nothing to report for Up, every horizon skipped).  (Stated for tables
\* whose scores all fall inside the score bins.)
C10_HorizonsIndependent ==
    (pc = "evaluate_done" /\ ScoresInBins) =>
        /\ outcome = "returned"
        /\ \A term \in TermSet :
             Cardinality(ValidPairs(epreds, term)) >= 2 =>
                 \E k \in 1..Len(report) : report[k] = ReportRow(epreds, term)

\* Up above score_flat, Down below -score_flat, Flat in between
ExpectedLabel(s) ==
    IF s[1] > score_flat * s[2] THEN "Up"
    ELSE IF s[1] < (-score_flat) * s[2] THEN "Down"
    ELSE "Flat"

Mirror(l) == IF l = "Up" THEN "Down" ELSE IF l = "Down" THEN "Up" ELSE l

\* C11: every paired score gets exactly one predicted label: Up if
\* score > score_flat, Down if score < -score_flat, Flat otherwise (the edges
\* -100, 100, -score_flat and score_flat included), and the scores s and -s
\* get mirrored labels.
C11_SymmetricBuckets ==
    pred_cls # <<>> =>
        \A i \in DOMAIN pred_cls.cls :
            LET s == epreds.score[pred_cls.term][i]
            IN  /\ pred_cls.cls[i] \in {"Up", "Down", "Flat"}
                /\ pred_cls.cls[i] = ExpectedLabel(s)
                /\ \A j \in DOMAIN pred_cls.cls :
                     LET u == epreds.score[pred_cls.term][j]
                     IN  u[1] = -s[1] =>
                             pred_cls.cls[j] = Mirror(pred_cls.cls[i])

EvaluationReportFields ==
    {"pearson_r", "mse", "mae", "accuracy", "precision_up", "recall_up", "f1_up"}

\* the mean of (score - return)^2 over the valid pairs of a horizon
MeanSquaredError(t, term) ==
    LET V == ValidPairs(t, term)
        e == [i \in V |-> Sub(t.score[term][i], t.R[term][i])]
    IN  Div(SumCells(V, [i \in V |-> Mul(e[i], e[i])]), Num(Cardinality(V)))

\* the mean of |score - return| over the valid pairs of a horizon
MeanAbsoluteError(t, term) ==
    LET V == ValidPairs(t, term)
        e == [i \in V |-> Sub(t.score[term][i], t.R[term][i])]
    IN  Div(SumCells(V, [i \in V |-> <<Abs(e[i][1]), e[i][2]>>]),
            Num(Cardinality(V)))

\* C16: every report row carries pearson_r, mse, mae, accuracy, precision_up,
\* recall_up and f1_up, with mse and mae the mean squared and mean absolute
\* error between score and realized return over the horizon's valid pairs.
C16_RowHasAllFields ==
    \A k \in 1..Len(report) :
        /\ EvaluationReportFields \subseteq DOMAIN report[k]
        /\ report[k].mse = MeanSquaredError(epreds, report[k].term)
        /\ report[k].mae = MeanAbsoluteError(epreds, report[k].term)

----------------------------------------------------------------------------
(* Properties of run_backtest and optimize_thresholds *)

\* a run_backtest call has completed and trial_df / threshold / performance are its
BacktestRan ==
    \/ pc = "backtest_done"
    \/ pc \in {"optimize", "optimize_done"} /\ tidx > 1

\* +1 if score > th, -1 if score < -th, 0 otherwise
ExpectedSignal(s, th) ==
    IF notna(s) /\ s[1] > th * s[2] THEN 1
    ELSE IF notna(s) /\ s[1] < (-th) * s[2] THEN -1
    ELSE 0

\* C3: for every score and every non-negative threshold the signal is +1 if
\* score > threshold, -1 if score < -threshold and 0 otherwise; at threshold 0
\* every nonzero score has a nonzero signal and score 0 has signal 0.
C3_SignalRule ==
    (BacktestRan /\ threshold >= 0) =>
        /\ Len(trial_df["signal"]) = NRows(trial_df)
        /\ \A i \in 1..NRows(trial_df) :
             LET s == trial_df[score_col][i]
                 g == trial_df["signal"][i]
             IN  /\ g = ExpectedSignal(s, threshold)
                 /\ (threshold = 0 /\ notna(s) /\ s[1] # 0) => g # 0
                 /\ (threshold = 0 /\ s = Num(0)) => g = 0

\* a call at a positive threshold that produced a long and a flat signal from
\* two positive scores
C3_Witness ==
    /\ BacktestRan /\ threshold > 0
    /\ \E i, j \in 1..NRows(trial_df) :
         /\ trial_df["signal"][i] = 1
         /\ trial_df["signal"][j] = 0 /\ Gt(trial_df[score_col][j], Num(0))

\* the product of (1 + signal * return) over the rows from position k on whose
\* return is defined
RECURSIVE EligibleProduct(_, _)
EligibleProduct(df, k) ==
    IF k > NRows(df) THEN Num(1)
    ELSE IF IsNaN(df[return_col][k]) THEN EligibleProduct(df, k + 1)
    ELSE LET r == df[return_col][k]
             g == df["signal"][k]
         IN  Mul(<<r[2] + g * r[1], r[2]>>, EligibleProduct(df, k + 1))

\* C4: the compounded performance is the product of (1 + signal * return) over
\* exactly the records whose return is defined; records with an undefined
\* return are left out (the result stays defined), and when every strategy
\* return is 0 or no record is eligible the result is exactly 1.
C4_Compounding ==
    BacktestRan =>
        /\ notna(performance)
        /\ performance = EligibleProduct(trial_df, 1)
        /\ (\A i \in 1..NRows(trial_df) :
              \/ IsNaN(trial_df[return_col][i])
              \/ trial_df["signal"][i] = 0
              \/ trial_df[return_col][i][1] = 0) => performance = Num(1)

\* a call over a table with an undefined return and a traded defined one
C4_Witness ==
    /\ BacktestRan
    /\ \E i, j \in 1..NRows(trial_df) :
         /\ IsNaN(trial_df[return_col][i])
         /\ notna(trial_df[return_col][j]) /\ trial_df["signal"][j] # 0
    /\ performance # Num(1)

\* C5: run_backtest called with a negative threshold is rejected before any
\* computation: it ends with an error and yields no performance value.
C5_NegativeThresholdRejected ==
    (pc = "backtest_done" /\ threshold < 0) =>
        (outcome = "raised" /\ IsNaN(performance))

PerfAt(df, th) == CumulativeReturn(WithSignal(df, th))

GridSet == {thresholds_to_test[i] : i \in 1..Len(thresholds_to_test)}

\* C6: best_threshold is a grid threshold whose backtest performance is the
\* maximum over the grid, best_performance is that maximum, and among the grid
\* thresholds reaching the maximum it is the smallest.
C6_BestIsSmallestArgmax ==
    pc = "optimize_done" =>
        /\ best[1] \in GridSet
        /\ best[2] = PerfAt(df_before, best[1])
        /\ \A th \in GridSet : ~Lt(best[2], PerfAt(df_before, th))
        /\ \A th \in GridSet : PerfAt(df_before, th) = best[2] => best[1] <= th

\* an optimization where the maximum is above 1, is reached by several grid
\* thresholds and not by all of them
C6_Witness ==
    /\ pc = "optimize_done"
    /\ Lt(Num(1), best[2])
    /\ \E th \in GridSet : th > best[1] /\ PerfAt(df_before, th) = best[2]
    /\ \E th \in GridSet : th < best[1] /\ Lt(PerfAt(df_before, th), best[2])

\* C7: the curve has exactly one entry per grid threshold 0, 5, ..., 100, in
\* ascending order, for every dataset.
C7_GridComplete ==
    pc = "optimize_done" =>
        /\ Len(results) = 21
        /\ \A i \in 1..Len(results) : results[i].threshold = 5 * (i - 1)

\* a finished optimization over a non-empty table whose curve is not constant
C7_Witness ==
    /\ pc = "optimize_done"
    /\ NRows(df_before) > 0
    /\ \E i, j \in 1..Len(results) :
         results[i].performance # results[j].performance

\* C8: optimize_thresholds leaves the caller's table unchanged (no 'signal'
\* column, no changed value), and every trial's result is the one a backtest
\* of the untouched table gives at that threshold.
C8_InputUnchanged ==
    /\ pc \in {"optimize", "optimize_done"} =>
        /\ main_df = df_before
        /\ "signal" \notin DOMAIN main_df
        /\ Len(results) > 0 =>
             results[Len(results)].performance =
                 PerfAt(df_before, results[Len(results)].threshold)
    /\ pc = "optimize_done" =>
        \A i \in 1..Len(results) :
            results[i].performance = PerfAt(df_before, results[i].threshold)

\* a finished optimization of a non-empty table, whose trials wrote signals
C8_Witness ==
    /\ pc = "optimize_done"
    /\ NRows(main_df) > 0
    /\ "signal" \in DOMAIN trial_df
    /\ \E i \in 1..Len(results) : results[i].performance # Num(1)

\* C17: with scores in -100..100 the backtest at threshold 100 gives signal 0
\* for every record and performance exactly 1, so the best_performance of an
\* optimization over the grid 0, 5, ..., 100 is never below 1.
C17_NeverBelowFlat ==
    /\ (pc \in {"optimize", "optimize_done"} /\ tidx > 1 /\ threshold = 100) =>
          /\ \A i \in 1..NRows(trial_df) : trial_df["signal"][i] = 0
          /\ performance = Num(1)
    /\ pc = "optimize_done" =>
          /\ threshold = 100
          /\ notna(best[2]) /\ ~Lt(best[2], Num(1))

\* an optimization of a table holding a score of 100 where every threshold
\* below 100 loses money, so the flat baseline at 100 is the best
C17_Witness ==
    /\ pc = "optimize_done"
    /\ best = <<100, Num(1)>>
    /\ \E i \in 1..NRows(df_before) : df_before[score_col][i] = Num(100)
    /\ \A k \in 1..(Len(results) - 1) : Lt(results[k].performance, Num(1))

----------------------------------------------------------------------------
(* Properties of compute_returns *)

DeltaOf(term) ==
    Horizons[CHOOSE k \in 1..Len(Horizons) : Horizons[k].term = term].delta

AllTerms == {Horizons[k].term : k \in 1..Len(Horizons)}

\* the most recent price dated on or before d, NaN when the series starts later
FloorPrice(p, d) ==
    LET S == {x \in PriceDates(p) : x <= d}
    IN  IF S = {} THEN NaN ELSE price_by_date(p, SeqMax(S))

FloorReturn(p, d, delta) ==
    LET b == FloorPrice(p, d)
        f == FloorPrice(p, d + delta)
    IN  IF notna(b) /\ notna(f) THEN Div(Sub(f, b), b) ELSE NaN

InRange(p, d) == \E x, y \in PriceDates(p) : x <= d /\ d <= y

\* C1: for every record and horizon the base price is the most recent price on
\* or before the base date and the future price the most recent price on or
\* before base date + offset (floor lookup); stated for the case the claim
\* singles out: when base date and target date both lie inside the series'
\* range, the stored return is the one computed from those two floor prices,
\* also when a date is a non-trading day.
C1_FloorLookup ==
    pc = "returns_done" =>
        \A t \in AllTerms : \A i \in 1..Len(preds) :
            LET d == normalize(preds[i])
            IN  (InRange(price, d) /\ InRange(price, d + DeltaOf(t))) =>
                    out.R[t][i] = FloorReturn(price, d, DeltaOf(t))

\* C2: for every record and horizon, when both prices are available the return
\* is (future_price - base_price) / base_price, otherwise it is NaN (absent,
\* not zero); the output keeps exactly the input's records.
C2_ReturnOrAbsent ==
    /\ pc \in {"compute_returns", "returns_done"} => out.index = preds
    /\ pc = "returns_done" => DOMAIN out.R = AllTerms
    /\ \A t \in DOMAIN out.R :
        /\ Len(out.R[t]) = Len(preds)
        /\ \A i \in 1..Len(preds) :
              LET b == MapPrice(price, normalize(preds[i]))
                  f == MapPrice(price, normalize(preds[i]) + DeltaOf(t))
                  r == out.R[t][i]
              IN  IF notna(b) /\ notna(f)
                  THEN notna(r) /\ r[1] * b[1] = (f[1] - b[1]) * r[2]
                  ELSE r = NaN

\* a finished call where one record has a nonzero return and another none
C2_Witness ==
    /\ pc = "returns_done"
    /\ \E t \in AllTerms : \E i, j \in 1..Len(preds) :
          /\ notna(out.R[t][i]) /\ out.R[t][i][1] # 0
          /\ IsNaN(out.R[t][j])

\* how many times the diagnostic for a horizon was emitted
WarnCount(term) == Cardinality({k \in 1..Len(warnings) : warnings[k] = term})

\* some record has both a base and a future price for the horizon
Resolves(term) ==
    \E i \in 1..Len(preds) :
        /\ notna(MapPrice(price, normalize(preds[i])))
        /\ notna(MapPrice(price, normalize(preds[i]) + DeltaOf(term)))

\* C15: the 'no overlapping price data' diagnostic is emitted for a horizon
\* exactly when no record has both a base and a future price for it, and then
\* exactly once; when at least one record resolves there is none, even if
\* other records have no return.
C15_DiagnosticOncePerEmptyHorizon ==
    pc \in {"compute_returns", "returns_done"} =>
        \A t \in AllTerms :
            WarnCount(t) = IF t \in DOMAIN out.R /\ ~Resolves(t) THEN 1 ELSE 0

\* a finished call with one horizon diagnosed and another one not, although a
\* record of it has no return
C15_Witness ==
    /\ pc = "returns_done"
    /\ \E t, u \in AllTerms :
         /\ WarnCount(t) = 1
         /\ WarnCount(u) = 0
         /\ \E i \in 1..Len(preds) : IsNaN(out.R[u][i])

====
